---- MODULE Spec2Model ----
(***************************************************************************)
(* A model of the `cache` crate: the bounded recency cache (src/lib.rs),   *)
(* the eviction selector (src/util.rs), the lazy cell (src/cache_island.rs)*)
(* the interning set (src/arc_hash_set.rs) and the dedup cache             *)
(* (src/cache_dedup.rs).                                                   *)
(*                                                                         *)
(* Every method that takes `&mut self` is one atomic action.  Operations   *)
(* whose outcome depends on an order the code does not fix (HashMap        *)
(* iteration, sort_unstable among equal ages, binary_search among equal    *)
(* ages) are set-valued operators: the set of results the build can        *)
(* produce; an action picks any of them.                                   *)
(***************************************************************************)
EXTENDS Integers, Sequences, FiniteSets, TLC

VARIABLES
    cache,      \* Cache<K, V>: [capacity, lru, map, remove_touched]
    touched,    \* history: keys touched since the last sweep returned
    last,       \* history: the last Cache call, [op, removed]
    sel,        \* a call of find_lru_item_to_remove: [it, remove_count, done, page]
    CACHE_ISLAND_AGE,   \* the process-wide age counter of the lazy cells
    cells,      \* CacheIsland<T> per cell: [state, age, value]
    snap,       \* the value a caller read with current_cache_island_age()
    since,      \* history: the Ready cells touched (get, get_mut) after that read
    made,       \* history: the cells made Ready after that read
    ilast,      \* history: the last CacheIsland call, [op, cell, arg]
    lock,       \* per cell: the caller initializing it (0: none)
    task,       \* per caller of get_or_try_init_async: [pc, cell, ret, ran, waited, saw]
    runs,       \* history, per cell: initializers started since it was last cleared
    fails,      \* history, per cell: initializers failed since it was last cleared
    dcache,     \* CacheDedup.cache: a Cache whose values are Arc handles
    groups,     \* CacheDedup.groups / an ArcHashSet: the set of handles it stores
    held,       \* per allocation: the clones of its handle that callers hold
    nextPtr,    \* the allocation the next Arc::new returns
    interned,   \* history, per value: the allocation get_or_init returned for it,
                \* 0 once the value was removed from the set
    survived,   \* history: allocations that stayed in the set when one of the
                \* cache entries sharing them was removed
    dlast,      \* history: the last ArcHashSet / CacheDedup call
    readers,    \* per thread touching the cache through `&self`: [pc, key, tick]
    tlog        \* history of those touches: the clock and the map they started
                \* from, and the [key, tick] of every fetch-add, in order

cacheVars == <<cache, touched, last>>
selVars == <<sel>>
islandVars == <<CACHE_ISLAND_AGE, cells, snap, since, made, ilast>>
initVars == <<lock, task, runs, fails>>
dedupVars == <<dcache, groups, held, nextPtr, interned, survived, dlast>>
touchVars == <<readers, tlog>>
vars == <<cache, touched, last, sel, CACHE_ISLAND_AGE, cells, snap, since, made, ilast,
          lock, task, runs, fails, dcache, groups, held, nextPtr, interned, survived, dlast,
          readers, tlog>>

\* what the actions of one component leave alone
notCache == <<selVars, islandVars, initVars, dedupVars, touchVars>>
notSel == <<cacheVars, islandVars, initVars, dedupVars, touchVars>>
notIsland == <<cacheVars, selVars, dedupVars, touchVars>>
notDedup == <<cacheVars, selVars, islandVars, initVars, touchVars>>
notTouch == <<touched, last, selVars, islandVars, initVars, dedupVars>>

----------------------------------------------------------------------------
(* Bounds of the model *)

\* keys are 0..MaxKey
MaxKey == 3
\* the recency clock is not advanced beyond MaxClock
MaxClock == 4
\* the selector is run on at most MaxItems items
MaxItems == 4
\* with ages 0..MaxAge
MaxAge == 2

\* cells are 1..MaxCell
MaxCell == 2
\* the age counter is not advanced beyond MaxTick
MaxTick == 4
\* callers of get_or_try_init_async are 1..MaxTask
MaxTask == 2
\* at most MaxRuns initializers are started on a cell between two clears
MaxRuns == 3

\* usize::MAX, the bound of an unbounded cache; its width plays no role here
UsizeMax == 2147483647

\* the keys of the dedup cache are 0..MaxDKey
MaxDKey == 1
\* the values interned are 0..MaxVal
MaxVal == 1
\* allocations are 1..MaxPtr
MaxPtr == 3
\* callers hold at most MaxHeld clones of one handle
MaxHeld == 1

\* threads sharing the cache are 1..MaxThread
MaxThread == 2
\* together they touch at most MaxTouch times
MaxTouch == 3

Keys == 0..MaxKey
Cells == 1..MaxCell
Tasks == 1..MaxTask
DKeys == 0..MaxDKey
Vals == 0..MaxVal
Ptrs == 1..MaxPtr
Threads == 1..MaxThread

Max(a, b) == IF a >= b THEN a ELSE b
Min(a, b) == IF a <= b THEN a ELSE b
\* usize::saturating_sub
SaturatingSub(a, b) == IF a >= b THEN a - b ELSE 0

Range(s) == { s[i] : i \in DOMAIN s }

----------------------------------------------------------------------------
(* src/util.rs: find_lru_item_to_remove.  An item is a record with a field *)
(* lru, the age the closure f extracts.                                    *)

\* Vec::insert(index, x), index counted from 0
VecInsert(v, index, x) ==
    SubSeq(v, 1, index) \o <<x>> \o SubSeq(v, index + 1, Len(v))

\* Vec::pop
VecPop(v) == SubSeq(v, 1, Len(v) - 1)

IsSortedByAge(v) == \A i \in 1..(Len(v) - 1) : v[i].lru <= v[i + 1].lru

\* the ascending arrangements of a set of items: the next item is any of
\* those of the least age
RECURSIVE Ascending(_)
Ascending(items) ==
    IF items = {}
    THEN { <<>> }
    ELSE UNION { { <<x>> \o w : w \in Ascending(items \ {x}) } :
                   x \in { y \in items : \A z \in items : y.lru <= z.lru } }

\* page.sort_unstable_by(|a, b| a.1.cmp(&b.1)): any ascending arrangement of
\* the (distinct) items; the order among equal ages is not fixed
SortUnstableByAge(v) == Ascending(Range(v))

\* page.binary_search_by(|probe| probe.1.cmp(&age)), Ok(idx) | Err(idx) => idx:
\* the index of any element of that age, else the insertion point
BinarySearchByAge(page, age) ==
    LET hits == { i \in 1..Len(page) : page[i].lru = age }
    IN  IF hits # {}
        THEN { i - 1 : i \in hits }
        ELSE { Cardinality({ i \in 1..Len(page) : page[i].lru < age }) }

\* ProcessItem with the new item pushed at the end instead of inserted at its
\* sorted position
ProcessItemPushed(page, item) ==
    IF item.lru < page[Len(page)].lru
    THEN { Append(VecPop(page), item) }
    ELSE { page }

\* one round of the loop over the remaining items (util.rs:35-46)
ProcessItem(page, item) ==
    IF item.lru < page[Len(page)].lru
    THEN { VecInsert(VecPop(page), index, item) :
             index \in BinarySearchByAge(page, item.lru) }
    ELSE { page }

RECURSIVE ProcessRemaining(_, _)
ProcessRemaining(page, rest) ==
    IF rest = <<>>
    THEN { page }
    ELSE UNION { ProcessRemaining(p, Tail(rest)) : p \in ProcessItem(page, Head(rest)) }

find_lru_item_to_remove(it, remove_count) ==
    IF remove_count = 0
    THEN { <<>> }
    ELSE IF Len(it) < remove_count
    THEN SortUnstableByAge(it)
    ELSE UNION { ProcessRemaining(page, SubSeq(it, remove_count + 1, Len(it))) :
                   page \in SortUnstableByAge(SubSeq(it, 1, remove_count)) }

----------------------------------------------------------------------------
(* src/atomic_ext.rs and src/lib.rs: Cache.  A cache is a record           *)
(* [capacity |-> [start, end], lru, map, remove_touched]; map is a         *)
(* function from the keys present to records [lru, val].                   *)

\* Cache::with_capacity
with_capacity(capacity) ==
    [capacity |-> capacity, lru |-> 0, map |-> <<>>, remove_touched |-> 0]

\* Cache::len
len(c) == Cardinality(DOMAIN c.map)

\* Cache::contains_key
contains_key(c, key) == key \in DOMAIN c.map

\* HashMap::remove of a set of keys
MapWithout(m, ks) == [k \in (DOMAIN m) \ ks |-> m[k]]

\* HashMap::insert
MapWith(m, key, rec) == [k \in (DOMAIN m) \cup {key} |-> IF k = key THEN rec ELSE m[k]]

\* The orders in which HashMap::iter may yield the keys of a set: all of them
RECURSIVE KeyOrders(_)
KeyOrders(ks) ==
    IF ks = {}
    THEN { <<>> }
    ELSE UNION { { <<k>> \o o : o \in KeyOrders(ks \ {k}) } : k \in ks }

\* self.map.iter_mut().map(|(k, rec)| (k.clone(), *rec.lru.get_mut())), in
\* every order the map may yield its entries
IterOrders(m) ==
    { [i \in DOMAIN o |-> [k |-> o[i], lru |-> m[o[i]].lru]] : o \in KeyOrders(DOMAIN m) }

\* Cache::remove_lru
remove_lru(c, count) ==
    LET remove_count == Min(len(c), count)
    IN  { [c EXCEPT !.map = MapWithout(c.map, { page[i].k : i \in DOMAIN page })] :
            page \in UNION { find_lru_item_to_remove(it, remove_count) : it \in IterOrders(c.map) } }

\* optimize_capacity without the max(.., 1) that makes it evict at least once
optimize_capacity_no_progress(c) ==
    IF len(c) >= c.capacity.end
    THEN LET end == Max(len(c), c.capacity.end)
             remove_count == SaturatingSub(end, c.capacity.start)
         IN  remove_lru(c, remove_count)
    ELSE { c }

\* Cache::optimize_capacity
optimize_capacity(c) ==
    IF len(c) >= c.capacity.end
    THEN LET end == Max(len(c), c.capacity.end)
             remove_count == Max(SaturatingSub(end, c.capacity.start), 1)
         IN  remove_lru(c, remove_count)
    ELSE { c }

\* a load in place of the fetch-add: the clock is read and not advanced
inc_load_only(c) == [ret |-> c.lru, cache |-> c]

\* AtomicU64Ext::inc on the clock: fetch_add(1) returns the previous value
inc(c) == [ret |-> c.lru, cache |-> [c EXCEPT !.lru = c.lru + 1]]

\* AtomicU64Ext::set on the stamp of a record: store(val)
set(c, key, val) == [c EXCEPT !.map[key].lru = val]

\* a touch that stamps the record and leaves the clock where it was
touch_without_inc(c, key) == [c EXCEPT !.map[key].lru = c.lru]

\* Cache::get, Cache::get_mut and the touch_value accessors: stamp the record
\* with the clock's value and advance the clock (AtomicU64Ext::inc / inc_mut)
touch(c, key) ==
    [c EXCEPT !.lru = c.lru + 1, !.map[key].lru = c.lru]

\* insert running the capacity check on a replacement as well
insert_checked(c, key, val) ==
    { [d EXCEPT !.map = MapWith(d.map, key, [lru |-> c.lru, val |-> val])] :
        d \in optimize_capacity([c EXCEPT !.lru = c.lru + 1]) }

\* value() that stamps the record as touch_value() does
item_value_touching(c, key) == [ret |-> c.map[key].val, cache |-> touch(c, key)]

\* CacheItem::value (and CacheItemMut, CacheValue, CacheValueMut) on the item
\* of key: the value read and the cache after the call
item_value(c, key) == [ret |-> c.map[key].val, cache |-> c]

\* CacheItem::touch_value (and CacheItemMut, CacheValue, CacheValueMut)
touch_value(c, key) == [ret |-> c.map[key].val, cache |-> touch(c, key)]

\* Cache::insert
insert(c, key, val) ==
    IF key \in DOMAIN c.map
    THEN { [c EXCEPT !.lru = c.lru + 1, !.map[key] = [lru |-> c.lru, val |-> val]] }
    ELSE { [d EXCEPT !.map = MapWith(d.map, key, [lru |-> c.lru, val |-> val])] :
             d \in optimize_capacity([c EXCEPT !.lru = c.lru + 1]) }

\* Cache::remove
remove(c, key) == [c EXCEPT !.map = MapWithout(c.map, {key})]

\* remove_untouched_if keeping only the stamps strictly above the mark
remove_untouched_if_strict(c, cond) ==
    [c EXCEPT !.map = MapWithout(c.map,
                        { k \in DOMAIN c.map :
                            ~(c.map[k].lru > c.remove_touched \/ k \notin cond) }),
              !.remove_touched = c.lru]

\* Cache::remove_untouched_if; cond is the set of keys whose entry cond accepts
remove_untouched_if(c, cond) ==
    [c EXCEPT !.map = MapWithout(c.map,
                        { k \in DOMAIN c.map :
                            ~(c.map[k].lru >= c.remove_touched \/ k \notin cond) }),
              !.remove_touched = c.lru]

\* Cache::retain; f is the set of keys whose entry f keeps
retain(c, f) == [c EXCEPT !.map = MapWithout(c.map, (DOMAIN c.map) \ f)]

\* Cache::set_capacity
set_capacity(c, capacity) == optimize_capacity([c EXCEPT !.capacity = capacity])

----------------------------------------------------------------------------
(* src/arc_hash_set.rs: ArcHashSet<T>, a HashSet<Arc<T>>.  An Arc<T> is a  *)
(* record [ptr, val]: the allocation and the value in it.  Hash and Eq of  *)
(* an Arc<T> are those of its value, so the set is looked up by value.     *)
(* The set is the set of the handles it stores.                            *)

Arc(ptr, val) == [ptr |-> ptr, val |-> val]

\* the handles the entries of a cache map hold
Referenced(m) == { m[k].val : k \in DOMAIN m }

\* strong_count without the clones callers hold
strong_count_no_external(h, g, m, hd) ==
    (IF h \in g THEN 1 ELSE 0) + Cardinality({ k \in DOMAIN m : m[k].val = h })

\* Arc::strong_count of handle h: the set's own handle (g), one clone per
\* cache entry holding it (m) and the clones callers hold (hd)
strong_count(h, g, m, hd) ==
    (IF h \in g THEN 1 ELSE 0) + Cardinality({ k \in DOMAIN m : m[k].val = h }) + hd[h.ptr]

\* ArcHashSet::get: the stored handle equal to v, if any
set_get(g, v) == { h \in g : h.val = v }

\* get_or_init allocating on every call, the new handle taking the place of
\* an equal one
set_get_or_init_fresh(g, v, next) ==
    [groups |-> (g \ set_get(g, v)) \cup {Arc(next, v)}, ret |-> Arc(next, v), next |-> next + 1]

\* ArcHashSet::get_or_init; next is the allocation Arc::new would return
set_get_or_init(g, v, next) ==
    IF set_get(g, v) # {}
    THEN [groups |-> g, ret |-> CHOOSE h \in set_get(g, v) : TRUE, next |-> next]
    ELSE [groups |-> g \cup {Arc(next, v)}, ret |-> Arc(next, v), next |-> next + 1]

\* ArcHashSet::remove
set_remove(g, v) == g \ set_get(g, v)

\* remove_if_unused that does not look at the reference count
set_remove_if_unused_always(g, v, m, hd) == g \ set_get(g, v)

\* ArcHashSet::remove_if_unused
set_remove_if_unused(g, v, m, hd) ==
    g \ { h \in set_get(g, v) : strong_count(h, g, m, hd) = 1 }

\* remove_unreferenced keeping only the handles with two holders besides the set
remove_unreferenced_eager(g, m, hd) == { h \in g : strong_count(h, g, m, hd) > 2 }

\* ArcHashSet::remove_unreferenced
remove_unreferenced(g, m, hd) == { h \in g : strong_count(h, g, m, hd) > 1 }

----------------------------------------------------------------------------
(* src/cache_dedup.rs: CacheDedup, a record [cache, groups].               *)

\* CacheDedup::with_capacity
dedup_with_capacity(capacity) == [cache |-> with_capacity(capacity), groups |-> {}]

\* what Cache::insert returns: the value the key held before the call
insert_returns(c, key) == IF key \in DOMAIN c.map THEN { c.map[key].val } ELSE {}

\* Cache::get with its result: Some(value) and the record stamped, or None
get(c, key) ==
    IF contains_key(c, key)
    THEN [ret |-> { c.map[key].val }, cache |-> touch(c, key)]
    ELSE [ret |-> {}, cache |-> c]

\* what unwrap() of None amounts to: the call panics and returns no handle
Panicked == Arc(0 - 1, 0 - 1)

\* Option::unwrap
unwrap(opt) == IF opt = {} THEN Panicked ELSE CHOOSE x \in opt : TRUE

\* the insert branch storing a handle of its own, Arc::new(value), that the
\* interning set never sees
dedup_insert_uninterned(d, key, v, next, hd) ==
    { [cache |-> c, groups |-> d.groups, next |-> next + 1] :
        c \in insert(d.cache, key, Arc(next, v)) }

\* the body of the `if` of CacheDedup::get_or_init: the value is interned and
\* its handle inserted under key.  The handle insert returns is owned by the
\* call, hence the + 1.
dedup_insert(d, key, v, next, hd) ==
    LET r == set_get_or_init(d.groups, v, next)
        old == insert_returns(d.cache, key)
    IN  { [cache |-> c,
           groups |-> IF \E o \in old : strong_count(o, r.groups, c.map, hd) + 1 = 1
                      THEN r.groups \ UNION { set_get(r.groups, o.val) : o \in old }
                      ELSE r.groups,
           next |-> r.next] : c \in insert(d.cache, key, r.ret) }

\* the last line of CacheDedup::get_or_init: self.cache.get(&key).unwrap()
dedup_lookup(i, key) ==
    [cache |-> get(i.cache, key).cache, groups |-> i.groups, next |-> i.next,
     ret |-> unwrap(get(i.cache, key).ret)]

\* get_or_init without the contains_key test: it interns and inserts always
dedup_get_or_init_unchecked(d, key, v, next, hd) ==
    { dedup_lookup(i, key) : i \in dedup_insert(d, key, v, next, hd) }

\* CacheDedup::get_or_init: the results [cache, groups, next, ret] it may have
dedup_get_or_init(d, key, v, next, hd) ==
    { dedup_lookup(i, key) :
        i \in IF ~contains_key(d.cache, key)
              THEN dedup_insert(d, key, v, next, hd)
              ELSE { [cache |-> d.cache, groups |-> d.groups, next |-> next] } }

\* the second half of every delegating operation: self.groups.remove_unreferenced()
swept(c, g, hd) == [cache |-> c, groups |-> remove_unreferenced(g, c.map, hd)]

\* CacheDedup::remove_lru
dedup_remove_lru(d, remove_count, hd) ==
    { swept(c, d.groups, hd) : c \in remove_lru(d.cache, remove_count) }

\* CacheDedup::remove_untouched_if (remove_untouched: cond accepts every key)
dedup_remove_untouched_if(d, cond, hd) ==
    swept(remove_untouched_if(d.cache, cond), d.groups, hd)

\* CacheDedup::retain
dedup_retain(d, f, hd) == swept(retain(d.cache, f), d.groups, hd)

\* CacheDedup::set_capacity
dedup_set_capacity(d, capacity, hd) ==
    { swept(c, d.groups, hd) : c \in set_capacity(d.cache, capacity) }

----------------------------------------------------------------------------
(* src/cache_island.rs: CacheIsland.  A cell is a record [state, age,      *)
(* value]; an Empty cell holds no age and no value (written 0).  The age   *)
(* of a Ready cell is a tick of the process-wide counter CACHE_ISLAND_AGE: *)
(* fetch_add(1) returns the counter's value and advances it.               *)

\* CacheIsland::new
EmptyCell == [state |-> "Empty", age |-> 0, value |-> 0]

\* CacheIslandInternal::with_value, with the tick its fetch_add returned
ReadyCell(value, tick) == [state |-> "Ready", age |-> tick, value |-> value]

\* CacheIsland::get and get_mut on a cell, with the tick the fetch_add returned
island_get(cell, tick) ==
    IF cell.state = "Ready" THEN [cell EXCEPT !.age = tick] ELSE cell

\* clear_if_untouched_since that clears only below the threshold
clear_if_untouched_since_below(cell, age) ==
    IF cell.state = "Ready" /\ cell.age < age THEN EmptyCell ELSE cell

\* CacheIsland::clear_if_untouched_since
clear_if_untouched_since(cell, age) ==
    IF cell.state = "Ready" /\ cell.age <= age THEN EmptyCell ELSE cell

\* current_cache_island_age
current_cache_island_age == CACHE_ISLAND_AGE

(* CacheIsland::get_or_try_init_async hands the caller's future, wrapped as  *)
(* async { Ok(CacheIslandInternal::with_value(f.await?)) }, to               *)
(* AsyncOnceCell::get_or_try_init of the async_cell_lock crate.  That call   *)
(* returns the stored value if there is one; otherwise it waits for the      *)
(* cell's lock, looks again, and only then polls the future it was given,    *)
(* storing its Ok value and passing its Err to this caller.  The error type  *)
(* E is a parameter of each call with no Clone bound: an error reaches only  *)
(* the caller whose future produced it.                                      *)

\* under_lock that does not look at the cell again
under_lock_unchecked(cell) == "init"

\* under the lock: return the stored value, or run the initializer
under_lock(cell) == IF cell.state = "Ready" THEN "return" ELSE "init"

\* resolved that stores a value on Err as well
resolved_poisoned(cell, ok, value, tick) == ReadyCell(IF ok THEN value ELSE 0, tick)

\* the cell once the caller's future has resolved: with_value(v) on Ok(v),
\* with the tick its fetch_add returned; nothing is stored on Err
resolved(cell, ok, value, tick) ==
    IF ok THEN ReadyCell(value, tick) ELSE cell

\* what a call returned: nothing yet, Ok(&value) or Err(error)
NoRet == [kind |-> "None", val |-> 0]
RetOk(value) == [kind |-> "Ok", val |-> value]
RetErr(error) == [kind |-> "Err", val |-> error]

\* a caller outside get_or_try_init_async
IdleTask ==
    [pc |-> "idle", cell |-> 0, ret |-> NoRet, ran |-> FALSE, waited |-> FALSE, saw |-> 0]

\* failed that hands t's error to the callers waiting on the cell as well
failed_shared(tk, t) ==
    [u \in Tasks |->
        IF u = t \/ (tk[u].pc = "queued" /\ tk[u].cell = tk[t].cell)
        THEN [tk[u] EXCEPT !.pc = "done", !.ret = RetErr(t),
                           !.saw = IF u = t THEN @ ELSE t]
        ELSE tk[u]]

\* the callers once caller t's future resolved to Err(t): the `?` returns the
\* error to t; the callers waiting on the cell (who saw the attempt fail) go
\* on waiting for the lock
failed(tk, t) ==
    [u \in Tasks |->
        IF u = t
        THEN [tk[u] EXCEPT !.pc = "done", !.ret = RetErr(t)]
        ELSE IF tk[u].pc = "queued" /\ tk[u].cell = tk[t].cell
        THEN [tk[u] EXCEPT !.saw = t]
        ELSE tk[u]]

----------------------------------------------------------------------------
(* The bounded cache as a state machine: one action per public method.     *)
(* As in the crate's tests, a key is inserted with itself as its value.    *)

Capacity(lo, hi) == [start |-> lo, end |-> hi]

\* the capacity ranges low..=high the cache is built with: the degenerate
\* 0..=0 and 1..=1, the test's 2..=3, the batching 1..=3 and 0..=2, and
\* Cache::new()'s MAX..=MAX
Capacities ==
    { Capacity(0, 0), Capacity(1, 1), Capacity(2, 3), Capacity(1, 3), Capacity(0, 2),
      Capacity(UsizeMax, UsizeMax) }

\* the keys of `ks` still present in map m
Present(ks, m) == ks \cap DOMAIN m

\* the call that returned last, and how many entries it removed
Called(op, before, after) ==
    [op |-> op, removed |-> Cardinality((DOMAIN before.map) \ (DOMAIN after.map))]

CacheIdle ==
    /\ cache = with_capacity(Capacity(UsizeMax, UsizeMax))
    /\ touched = {}
    /\ last = [op |-> "new", removed |-> 0]

CacheInit ==
    /\ cache \in { with_capacity(cap) : cap \in Capacities }
    /\ touched = {}
    /\ last = [op |-> "new", removed |-> 0]

Insert ==
    /\ \E key \in Keys :
        /\ cache.lru < MaxClock
        /\ cache' \in insert(cache, key, key)
        /\ touched' = Present(touched \cup {key}, cache'.map)
    /\ last' = Called("insert", cache, cache')
    /\ UNCHANGED notCache

Get ==
    /\ \E key \in Keys :
        /\ cache.lru < MaxClock
        /\ contains_key(cache, key)
        /\ cache' = touch(cache, key)
        /\ touched' = touched \cup {key}
    /\ last' = Called("get", cache, cache')
    /\ UNCHANGED notCache

Remove ==
    /\ \E key \in DOMAIN cache.map :
        cache' = remove(cache, key)
    /\ touched' = Present(touched, cache'.map)
    /\ last' = Called("remove", cache, cache')
    /\ UNCHANGED notCache

RemoveLru ==
    /\ \E count \in 0..(MaxKey + 1) :
        cache' \in remove_lru(cache, count)
    /\ touched' = Present(touched, cache'.map)
    /\ last' = Called("remove_lru", cache, cache')
    /\ UNCHANGED notCache

RemoveUntouched ==
    /\ cache' = remove_untouched_if(cache, Keys)
    /\ touched' = {}
    /\ last' = Called("remove_untouched", cache, cache')
    /\ UNCHANGED notCache

RemoveUntouchedIf ==
    /\ \E cond \in SUBSET DOMAIN cache.map :
        cache' = remove_untouched_if(cache, cond)
    /\ touched' = {}
    /\ last' = Called("remove_untouched_if", cache, cache')
    /\ UNCHANGED notCache

Retain ==
    /\ \E f \in SUBSET DOMAIN cache.map :
        cache' = retain(cache, f)
    /\ touched' = Present(touched, cache'.map)
    /\ last' = Called("retain", cache, cache')
    /\ UNCHANGED notCache

SetCapacity ==
    /\ \E capacity \in Capacities :
        cache' \in set_capacity(cache, capacity)
    /\ touched' = Present(touched, cache'.map)
    /\ last' = Called("set_capacity", cache, cache')
    /\ UNCHANGED notCache

NoSnap == -1

Visited(op, cell, arg) ==
    [op |-> op, cell |-> cell, arg |-> arg,
     was |-> IF cell \in Cells THEN cells[cell].state ELSE "Empty"]

\* the cells as CacheIsland::new() makes them, the counter at its initial 0
IslandIdle ==
    /\ CACHE_ISLAND_AGE = 0
    /\ cells = [c \in Cells |-> EmptyCell]
    /\ snap = NoSnap
    /\ since = {}
    /\ made = {}
    /\ ilast = Visited("new", 0, 0)

\* no caller inside get_or_try_init_async
InitIdle ==
    /\ lock = [c \in Cells |-> 0]
    /\ task = [t \in Tasks |-> IdleTask]
    /\ runs = [c \in Cells |-> 0]
    /\ fails = [c \in Cells |-> 0]

\* `&mut self` on cell c: no call of get_or_try_init_async on c is in flight
\* and no reference it returned is held
NoCallOn(c) == \A t \in Tasks : task[t].pc = "idle" \/ task[t].cell # c

SelIdle == sel = [it |-> <<>>, remove_count |-> 0, done |-> FALSE, page |-> <<>>]

NoArc == Arc(0, 0)

\* the last ArcHashSet / CacheDedup call: the value and key passed, the handle
\* returned, whether it allocated, and the handles of the cache entries it
\* removed (CacheDedup) or the handles it removed from the set (ArcHashSet)
DCalled(op, key, val, ret, allocated, gone) ==
    [op |-> op, key |-> key, val |-> val, ret |-> ret, allocated |-> allocated, gone |-> gone]

\* an empty set; dcache is set by each specification
SetIdle ==
    /\ groups = {}
    /\ held = [p \in Ptrs |-> 0]
    /\ nextPtr = 1
    /\ interned = [v \in Vals |-> 0]
    /\ survived = {}
    /\ dlast = DCalled("new", 0, 0, NoArc, FALSE, {})

DedupIdle ==
    /\ dcache = with_capacity(Capacity(UsizeMax, UsizeMax))
    /\ SetIdle

\* a thread not inside Cache::get
IdleReader == [pc |-> "idle", key |-> 0, tick |-> 0]

\* no thread shares the cache
TouchIdle ==
    /\ readers = [t \in Threads |-> IdleReader]
    /\ tlog = [lru |-> 0, map |-> <<>>, drawn |-> <<>>]

Init == CacheInit /\ SelIdle /\ IslandIdle /\ InitIdle /\ DedupIdle /\ TouchIdle

Next ==
    \/ Insert
    \/ Get
    \/ Remove
    \/ RemoveLru
    \/ RemoveUntouched
    \/ RemoveUntouchedIf
    \/ Retain

Spec == Init /\ [][Next]_vars

\* the cache with its capacity changed between the calls
CapNext ==
    \/ Insert
    \/ Get
    \/ Remove
    \/ SetCapacity

SpecCap == Init /\ [][CapNext]_vars

\* Cache::insert with a value of its own, and what it returned
InsertValue ==
    /\ \E key \in Keys, val \in Vals :
        /\ cache.lru < MaxClock
        /\ cache' \in insert(cache, key, val)
        /\ touched' = Present(touched \cup {key}, cache'.map)
        /\ last' = [op |-> "insert", removed |-> Called("insert", cache, cache').removed,
                    key |-> key, val |-> val, ret |-> insert_returns(cache, key)]
    /\ UNCHANGED notCache

\* the cache holding values that differ from their keys
ValNext ==
    \/ InsertValue
    \/ Get
    \/ Remove

SpecVal == Init /\ [][ValNext]_vars

----------------------------------------------------------------------------
(* The cache read without being used: iteration with value(), contains_key *)
(* and len, next to the calls that touch and the calls that evict.         *)

\* a call that removes nothing: its name and the key of the item it read
Read(op, key) == [op |-> op, removed |-> 0, key |-> key]

\* cache.iter() (iter_mut, values, values_mut) read through value()
IterValue ==
    /\ \E key \in DOMAIN cache.map :
        /\ cache' = item_value(cache, key).cache
        /\ last' = Read("value", key)
    /\ UNCHANGED touched
    /\ UNCHANGED notCache

\* cache.iter() (iter_mut, values, values_mut) read through touch_value()
IterTouchValue ==
    /\ \E key \in DOMAIN cache.map :
        /\ cache.lru < MaxClock
        /\ cache' = touch_value(cache, key).cache
        /\ last' = Read("touch_value", key)
        /\ touched' = touched \cup {key}
    /\ UNCHANGED notCache

ContainsKey ==
    /\ \E key \in Keys :
        /\ contains_key(cache, key) \in BOOLEAN
        /\ last' = Read("contains_key", 0)
    /\ UNCHANGED <<cache, touched>>
    /\ UNCHANGED notCache

Length ==
    /\ len(cache) >= 0
    /\ last' = Read("len", 0)
    /\ UNCHANGED <<cache, touched>>
    /\ UNCHANGED notCache

\* cache.remove_lru(1)
RemoveLruOne ==
    /\ cache' \in remove_lru(cache, 1)
    /\ touched' = Present(touched, cache'.map)
    /\ last' = Called("remove_lru", cache, cache')
    /\ UNCHANGED notCache

\* Cache::new(): no capacity limit
PeekInit == CacheIdle /\ SelIdle /\ IslandIdle /\ InitIdle /\ DedupIdle /\ TouchIdle

PeekNext ==
    \/ Insert
    \/ IterValue
    \/ IterTouchValue
    \/ ContainsKey
    \/ Length
    \/ Retain
    \/ RemoveLruOne
    \/ RemoveUntouched

SpecPeek == PeekInit /\ [][PeekNext]_vars

----------------------------------------------------------------------------
(* Threads sharing the cache through `&self`: each Cache::get (or          *)
(* CacheItem::touch_value) is rec.lru.set(self.lru.inc()), two atomic      *)
(* operations that other threads' operations may come between.             *)

\* an unbounded cache after insert(0, 0), .., insert(n - 1, n - 1)
RECURSIVE Inserted(_)
Inserted(n) ==
    IF n = 0
    THEN with_capacity(Capacity(UsizeMax, UsizeMax))
    ELSE CHOOSE c \in insert(Inserted(n - 1), n - 1, n - 1) : TRUE

TouchInit ==
    /\ cache \in { Inserted(n) : n \in 1..(MaxDKey + 1) }
    /\ touched = {}
    /\ last = [op |-> "new", removed |-> 0]
    /\ readers = [t \in Threads |-> IdleReader]
    /\ tlog = [lru |-> cache.lru, map |-> cache.map, drawn |-> <<>>]
    /\ SelIdle
    /\ IslandIdle
    /\ InitIdle
    /\ DedupIdle

\* self.lru.inc(): the thread draws its tick
TouchFetch ==
    /\ \E t \in Threads, key \in DOMAIN cache.map :
        /\ readers[t].pc = "idle"
        /\ Len(tlog.drawn) < MaxTouch
        /\ cache' = inc(cache).cache
        /\ readers' = [readers EXCEPT ![t] = [pc |-> "store", key |-> key, tick |-> inc(cache).ret]]
        /\ tlog' = [tlog EXCEPT !.drawn = Append(@, [key |-> key, tick |-> inc(cache).ret])]
    /\ UNCHANGED notTouch

\* rec.lru.set(tick): the thread stores its tick as the record's stamp
TouchStore ==
    /\ \E t \in Threads :
        /\ readers[t].pc = "store"
        /\ cache' = set(cache, readers[t].key, readers[t].tick)
        /\ readers' = [readers EXCEPT ![t] = IdleReader]
    /\ UNCHANGED tlog
    /\ UNCHANGED notTouch

TouchNext ==
    \/ TouchFetch
    \/ TouchStore

SpecTouch == TouchInit /\ [][TouchNext]_vars

----------------------------------------------------------------------------
(* The eviction selector on its own: a call of find_lru_item_to_remove on  *)
(* any input of at most MaxItems items, in any order, with any count.      *)

\* the inputs: item i carries its position as identity and an age
SelInputs ==
    UNION { { [i \in 1..n |-> [k |-> i, lru |-> ages[i]]] : ages \in [1..n -> 0..MaxAge] } :
              n \in 0..MaxItems }

SelInit ==
    /\ sel \in { [it |-> it, remove_count |-> k, done |-> FALSE, page |-> <<>>] :
                   it \in SelInputs, k \in 0..(MaxItems + 1) }
    /\ CacheIdle
    /\ IslandIdle
    /\ InitIdle
    /\ DedupIdle
    /\ TouchIdle

Select ==
    /\ ~sel.done
    /\ \E page \in find_lru_item_to_remove(sel.it, sel.remove_count) :
        sel' = [sel EXCEPT !.done = TRUE, !.page = page]
    /\ UNCHANGED notSel

SelNext == Select

SpecSel == SelInit /\ [][SelNext]_vars

----------------------------------------------------------------------------
(* The lazy cells as a state machine: MaxCell cells sharing the counter.   *)

IslandInit == IslandIdle /\ InitIdle /\ CacheIdle /\ SelIdle /\ DedupIdle /\ TouchIdle

\* the cells of `cs` joined to a history set, once a snapshot was read
Noted(hist, cs) == IF snap = NoSnap THEN hist ELSE hist \cup cs

\* let s = current_cache_island_age()
Snapshot ==
    /\ snap' = current_cache_island_age
    /\ since' = {}
    /\ made' = {}
    /\ ilast' = Visited("current_cache_island_age", 0, 0)
    /\ UNCHANGED <<CACHE_ISLAND_AGE, cells>>
    /\ UNCHANGED <<notIsland, initVars>>

\* CacheIsland::get (`&self`) and CacheIsland::get_mut (`&mut self`)
IslandGet ==
    /\ \E c \in Cells, op \in {"get", "get_mut"} :
        /\ op = "get_mut" => NoCallOn(c)
        /\ ilast' = Visited(op, c, 0)
        /\ IF cells[c].state = "Ready"
           THEN /\ CACHE_ISLAND_AGE < MaxTick
                /\ cells' = [cells EXCEPT ![c] = island_get(@, CACHE_ISLAND_AGE)]
                /\ CACHE_ISLAND_AGE' = CACHE_ISLAND_AGE + 1
                /\ since' = Noted(since, {c})
           ELSE UNCHANGED <<cells, CACHE_ISLAND_AGE, since>>
    /\ UNCHANGED <<snap, made>>
    /\ UNCHANGED <<notIsland, initVars>>

\* CacheIsland::replace (and with_value, which makes a cell Ready the same way)
IslandReplace ==
    /\ \E c \in Cells :
        /\ NoCallOn(c)
        /\ CACHE_ISLAND_AGE < MaxTick
        /\ cells' = [cells EXCEPT ![c] = ReadyCell(0, CACHE_ISLAND_AGE)]
        /\ since' = since \ {c}
        /\ made' = Noted(made, {c})
        /\ ilast' = Visited("replace", c, 0)
    /\ CACHE_ISLAND_AGE' = CACHE_ISLAND_AGE + 1
    /\ UNCHANGED snap
    /\ UNCHANGED <<notIsland, initVars>>

\* CacheIsland::clear
IslandClear ==
    /\ \E c \in Cells :
        /\ NoCallOn(c)
        /\ cells' = [cells EXCEPT ![c] = EmptyCell]
        /\ since' = since \ {c}
        /\ made' = made \ {c}
        /\ ilast' = Visited("clear", c, 0)
        /\ runs' = [runs EXCEPT ![c] = 0]
        /\ fails' = [fails EXCEPT ![c] = 0]
    /\ UNCHANGED <<CACHE_ISLAND_AGE, snap, lock, task>>
    /\ UNCHANGED notIsland

\* CacheIsland::clear_if_untouched_since
IslandClearIfUntouchedSince ==
    /\ \E c \in Cells, age \in 0..MaxTick :
        /\ NoCallOn(c)
        /\ cells' = [cells EXCEPT ![c] = clear_if_untouched_since(@, age)]
        /\ since' = IF cells'[c].state = "Empty" THEN since \ {c} ELSE since
        /\ made' = IF cells'[c].state = "Empty" THEN made \ {c} ELSE made
        /\ ilast' = Visited("clear_if_untouched_since", c, age)
    /\ UNCHANGED <<CACHE_ISLAND_AGE, snap>>
    /\ UNCHANGED <<notIsland, initVars>>

IslandNext ==
    \/ Snapshot
    \/ IslandGet
    \/ IslandReplace
    \/ IslandClear
    \/ IslandClearIfUntouchedSince

SpecIsland == IslandInit /\ [][IslandNext]_vars

----------------------------------------------------------------------------
(* Concurrent callers of get_or_try_init_async.  Caller t's initializer    *)
(* resolves to Ok(t) or to Err(t), so that values and errors tell their    *)
(* callers apart.  A caller whose call returned holds the result until it  *)
(* drops it (Return).  The callers share one cell, TheCell.                *)

TheCell == 1

\* the call starts: the stored value is returned at once if there is one,
\* otherwise the caller waits for the cell's lock
Arrive ==
    /\ \E t \in Tasks, c \in {TheCell} :
        /\ task[t].pc = "idle"
        /\ task' = [task EXCEPT ![t] =
                      IF cells[c].state = "Ready"
                      THEN [IdleTask EXCEPT !.pc = "done", !.cell = c,
                                            !.ret = RetOk(cells[c].value)]
                      ELSE [IdleTask EXCEPT !.pc = "queued", !.cell = c, !.waited = TRUE]]
    /\ UNCHANGED <<lock, runs, fails>>
    /\ UNCHANGED <<notIsland, islandVars>>

\* a waiting caller gets the lock and looks at the cell again
Acquire ==
    /\ \E t \in Tasks :
        LET c == task[t].cell IN
        /\ task[t].pc = "queued"
        /\ lock[c] = 0
        /\ IF under_lock(cells[c]) = "return"
           THEN /\ task' = [task EXCEPT ![t].pc = "done", ![t].ret = RetOk(cells[c].value)]
                /\ UNCHANGED <<lock, runs>>
           ELSE /\ runs[c] < MaxRuns
                /\ task' = [task EXCEPT ![t].pc = "init", ![t].ran = TRUE]
                /\ lock' = [lock EXCEPT ![c] = t]
                /\ runs' = [runs EXCEPT ![c] = @ + 1]
    /\ UNCHANGED fails
    /\ UNCHANGED <<notIsland, islandVars>>

\* the initializer resolves to Ok: the value is stored with a fresh tick
ResolveOk ==
    /\ \E t \in Tasks :
        LET c == task[t].cell IN
        /\ task[t].pc = "init"
        /\ CACHE_ISLAND_AGE < MaxTick
        /\ cells' = [cells EXCEPT ![c] = resolved(@, TRUE, t, CACHE_ISLAND_AGE)]
        /\ task' = [task EXCEPT ![t].pc = "done", ![t].ret = RetOk(t)]
        /\ lock' = [lock EXCEPT ![c] = 0]
        /\ made' = Noted(made, {c})
    /\ CACHE_ISLAND_AGE' = CACHE_ISLAND_AGE + 1
    /\ UNCHANGED <<runs, fails, snap, since, ilast>>
    /\ UNCHANGED notIsland

\* the initializer resolves to Err
ResolveErr ==
    /\ \E t \in Tasks :
        LET c == task[t].cell IN
        /\ task[t].pc = "init"
        /\ cells' = [cells EXCEPT ![c] = resolved(@, FALSE, t, CACHE_ISLAND_AGE)]
        /\ task' = failed(task, t)
        /\ lock' = [lock EXCEPT ![c] = 0]
        /\ fails' = [fails EXCEPT ![c] = @ + 1]
    /\ UNCHANGED <<runs, CACHE_ISLAND_AGE, snap, since, made, ilast>>
    /\ UNCHANGED notIsland

\* the caller drops what the call returned
Return ==
    /\ \E t \in Tasks :
        /\ task[t].pc = "done"
        /\ task' = [task EXCEPT ![t] = IdleTask]
    /\ UNCHANGED <<lock, runs, fails>>
    /\ UNCHANGED <<notIsland, islandVars>>

InitNext ==
    \/ Arrive
    \/ Acquire
    \/ ResolveOk
    \/ ResolveErr
    \/ Return
    \/ IslandClear

SpecInit == IslandInit /\ [][InitNext]_vars

----------------------------------------------------------------------------
(* The interning set on its own: an ArcHashSet whose callers clone and     *)
(* drop the handles it returns.                                            *)

SetInit == DedupIdle /\ CacheIdle /\ SelIdle /\ IslandIdle /\ InitIdle /\ TouchIdle

\* the history of get_or_init once the set is g: values it no longer stores
\* are forgotten
Forget(g) == [v \in Vals |-> IF set_get(g, v) = {} THEN 0 ELSE interned[v]]

SetGetOrInit ==
    /\ \E v \in Vals :
        LET r == set_get_or_init(groups, v, nextPtr)
        IN  /\ r.next <= MaxPtr + 1
            /\ groups' = r.groups
            /\ nextPtr' = r.next
            /\ interned' = [Forget(r.groups) EXCEPT ![v] = r.ret.ptr]
            /\ dlast' = DCalled("set.get_or_init", 0, v, r.ret, r.next # nextPtr, {})
    /\ UNCHANGED <<dcache, held, survived>>
    /\ UNCHANGED notDedup

SetGet ==
    /\ \E v \in Vals :
        \E h \in set_get(groups, v) :
            dlast' = DCalled("set.get", 0, v, h, FALSE, {})
    /\ UNCHANGED <<dcache, groups, held, nextPtr, interned, survived>>
    /\ UNCHANGED notDedup

\* the caller clones the handle the call before returned a reference to
Clone ==
    /\ dlast.op \in {"set.get", "set.get_or_init", "dedup.get", "dedup.get_or_init"}
    /\ held[dlast.ret.ptr] < MaxHeld
    /\ held' = [held EXCEPT ![dlast.ret.ptr] = @ + 1]
    /\ dlast' = [dlast EXCEPT !.op = "clone"]
    /\ UNCHANGED <<dcache, groups, nextPtr, interned, survived>>
    /\ UNCHANGED notDedup

\* a caller drops a clone it holds
Drop ==
    /\ \E p \in Ptrs :
        /\ held[p] > 0
        /\ held' = [held EXCEPT ![p] = @ - 1]
    /\ dlast' = DCalled("drop", 0, 0, NoArc, FALSE, {})
    /\ UNCHANGED <<dcache, groups, nextPtr, interned, survived>>
    /\ UNCHANGED notDedup

SetRemove ==
    /\ \E v \in Vals :
        /\ groups' = set_remove(groups, v)
        /\ dlast' = DCalled("set.remove", 0, v, NoArc, FALSE, groups \ groups')
    /\ interned' = Forget(groups')
    /\ UNCHANGED <<dcache, held, nextPtr, survived>>
    /\ UNCHANGED notDedup

SetRemoveIfUnused ==
    /\ \E v \in Vals :
        /\ groups' = set_remove_if_unused(groups, v, dcache.map, held)
        /\ dlast' = DCalled("set.remove_if_unused", 0, v, NoArc, FALSE, groups \ groups')
    /\ interned' = Forget(groups')
    /\ UNCHANGED <<dcache, held, nextPtr, survived>>
    /\ UNCHANGED notDedup

SetRemoveUnreferenced ==
    /\ groups' = remove_unreferenced(groups, dcache.map, held)
    /\ dlast' = DCalled("set.remove_unreferenced", 0, 0, NoArc, FALSE, groups \ groups')
    /\ interned' = Forget(groups')
    /\ UNCHANGED <<dcache, held, nextPtr, survived>>
    /\ UNCHANGED notDedup

SetNext ==
    \/ SetGetOrInit
    \/ SetGet
    \/ Clone
    \/ Drop
    \/ SetRemove
    \/ SetRemoveIfUnused
    \/ SetRemoveUnreferenced

SpecSet == SetInit /\ [][SetNext]_vars

----------------------------------------------------------------------------
(* The dedup cache as a state machine.  The predicates passed to retain    *)
(* and remove_untouched_if do not reassign the handle they are shown.      *)

\* the capacity ranges the dedup cache is given
DedupCapacities ==
    { Capacity(0, 0), Capacity(1, 1), Capacity(1, 2), Capacity(UsizeMax, UsizeMax) }

DedupInit ==
    /\ dcache \in { dedup_with_capacity(cap).cache : cap \in DedupCapacities }
    /\ SetIdle
    /\ CacheIdle
    /\ SelIdle
    /\ IslandIdle
    /\ InitIdle
    /\ TouchIdle

Dedup == [cache |-> dcache, groups |-> groups]

\* the handles of the entries of m that m2 no longer has
Gone(m, m2) == { m[k].val : k \in (DOMAIN m) \ (DOMAIN m2) }

\* the handles of the entries of m that m2 still has
Kept(m, m2) == { m[k].val : k \in (DOMAIN m) \cap (DOMAIN m2) }

\* a CacheDedup call leaves cache c and set g
DAfter(op, key, val, ret, allocated, c, g) ==
    /\ dcache' = c
    /\ groups' = g
    /\ survived' = survived \cup
                     { h.ptr : h \in (Gone(dcache.map, c.map) \cap Kept(dcache.map, c.map)) \cap g }
    /\ dlast' = DCalled(op, key, val, ret, allocated, Gone(dcache.map, c.map))

DGetOrInit ==
    /\ \E key \in DKeys, v \in Vals :
        \E r \in dedup_get_or_init(Dedup, key, v, nextPtr, held) :
            /\ r.cache.lru <= MaxClock
            /\ r.next <= MaxPtr + 1
            /\ DAfter("dedup.get_or_init", key, v, r.ret, r.next # nextPtr, r.cache, r.groups)
            /\ nextPtr' = r.next
            /\ interned' = IF contains_key(dcache, key)
                           THEN Forget(r.groups)
                           ELSE [Forget(r.groups) EXCEPT ![v] = r.ret.ptr]
    /\ UNCHANGED held
    /\ UNCHANGED notDedup

DGet ==
    /\ \E key \in DOMAIN dcache.map :
        /\ dcache.lru < MaxClock
        /\ DAfter("dedup.get", key, 0, dcache.map[key].val, FALSE, touch(dcache, key), groups)
    /\ UNCHANGED <<held, nextPtr, interned>>
    /\ UNCHANGED notDedup

DRemoveLru ==
    /\ \E remove_count \in 0..(MaxDKey + 2) :
        \E d \in dedup_remove_lru(Dedup, remove_count, held) :
            /\ DAfter("dedup.remove_lru", 0, 0, NoArc, FALSE, d.cache, d.groups)
            /\ interned' = Forget(d.groups)
    /\ UNCHANGED <<held, nextPtr>>
    /\ UNCHANGED notDedup

DRemoveUntouched ==
    /\ LET d == dedup_remove_untouched_if(Dedup, DKeys, held)
       IN  /\ DAfter("dedup.remove_untouched", 0, 0, NoArc, FALSE, d.cache, d.groups)
           /\ interned' = Forget(d.groups)
    /\ UNCHANGED <<held, nextPtr>>
    /\ UNCHANGED notDedup

DRemoveUntouchedIf ==
    /\ \E cond \in SUBSET DOMAIN dcache.map :
        LET d == dedup_remove_untouched_if(Dedup, cond, held)
        IN  /\ DAfter("dedup.remove_untouched_if", 0, 0, NoArc, FALSE, d.cache, d.groups)
            /\ interned' = Forget(d.groups)
    /\ UNCHANGED <<held, nextPtr>>
    /\ UNCHANGED notDedup

DRetain ==
    /\ \E f \in SUBSET DOMAIN dcache.map :
        LET d == dedup_retain(Dedup, f, held)
        IN  /\ DAfter("dedup.retain", 0, 0, NoArc, FALSE, d.cache, d.groups)
            /\ interned' = Forget(d.groups)
    /\ UNCHANGED <<held, nextPtr>>
    /\ UNCHANGED notDedup

DSetCapacity ==
    /\ \E capacity \in DedupCapacities :
        \E d \in dedup_set_capacity(Dedup, capacity, held) :
            /\ DAfter("dedup.set_capacity", 0, 0, NoArc, FALSE, d.cache, d.groups)
            /\ interned' = Forget(d.groups)
    /\ UNCHANGED <<held, nextPtr>>
    /\ UNCHANGED notDedup

DedupNext ==
    \/ DGetOrInit
    \/ DGet
    \/ Clone
    \/ Drop
    \/ DRemoveLru
    \/ DRemoveUntouched
    \/ DRemoveUntouchedIf
    \/ DRetain
    \/ DSetCapacity

SpecDedup == DedupInit /\ [][DedupNext]_vars

----------------------------------------------------------------------------
(* Properties of the bounded cache (Spec)                                  *)

\* C1: immediately after every insert returns, len() <= high.
C1_LenAtMostHigh ==
    last.op = "insert" => len(cache) <= cache.capacity.end

\* C2: an insert of an absent key adds exactly that key; it evicts nothing
\* when len < high, and when len >= high it evicts exactly
\* min(len, max(max(len, high) - low, 1)) entries, each of them stamped
\* earlier than every entry that survives.
C2_InsertEvictsOldest ==
    [][\A key \in Keys :
        (last'.op = "insert" /\ key \notin DOMAIN cache.map /\ key \in DOMAIN cache'.map) =>
            LET old == DOMAIN cache.map
                new == DOMAIN cache'.map
                evicted == old \ new
                n == Cardinality(old)
                lo == cache.capacity.start
                hi == cache.capacity.end
            IN  /\ new \ old = {key}
                /\ n < hi => evicted = {}
                /\ n >= hi => Cardinality(evicted) = Min(n, Max(Max(n, hi) - lo, 1))
                /\ \A e \in evicted, k \in old \cap new :
                       cache.map[e].lru < cache.map[k].lru
                /\ \A k \in old \cap new : cache'.map[k] = cache.map[k]]_vars

\* C2 witness: capacity 2..=3; the fourth insert found three entries, evicted
\* one and left keys {1, 2, 3} stamped in their order of insertion.
C2_ItWorks ==
    /\ cache.capacity = Capacity(2, 3)
    /\ last = [op |-> "insert", removed |-> 1]
    /\ cache.lru = 4
    /\ DOMAIN cache.map = {1, 2, 3}
    /\ \A k \in {1, 2, 3} : cache.map[k].lru = k

\* C4: a sweep removes an entry if and only if the entry was not touched
\* (inserted, read through get) since the previous sweep returned and cond
\* holds for it; remove_untouched is the sweep whose cond always holds.
C4_SweepRemovesUntouched ==
    [][\A cond \in SUBSET Keys :
        (/\ last'.op \in {"remove_untouched", "remove_untouched_if"}
         /\ cache' = remove_untouched_if(cache, cond)) =>
            DOMAIN cache'.map =
                (DOMAIN cache.map) \ { k \in DOMAIN cache.map : k \notin touched /\ k \in cond }]_vars

\* C4 witness: two inserts, a sweep that removed nothing, a touch of key 1 and
\* a second sweep that removed only the other key.
C4_SecondSweep ==
    /\ last = [op |-> "remove_untouched", removed |-> 1]
    /\ cache.lru = 3
    /\ cache.remove_touched = 3
    /\ DOMAIN cache.map = {1}
    /\ cache.map[1].lru = 2

----------------------------------------------------------------------------
(* Properties of the eviction selector (SpecSel)                           *)

\* the age at rank i (1 the least) of a full sort of the input
OracleAge(it, i) ==
    CHOOSE a \in { it[j].lru : j \in DOMAIN it } :
        /\ Cardinality({ j \in DOMAIN it : it[j].lru <= a }) >= i
        /\ Cardinality({ j \in DOMAIN it : it[j].lru < a }) < i

\* C3: the selector returns the empty list for k = 0, all n items in ascending
\* age order for k >= n, and otherwise k distinct items of the input, in
\* ascending age order, whose ages are the k least ages of the input: the
\* ages of a full sort cut to k.
C3_SelectorIsKSmallest ==
    sel.done =>
        LET n == Len(sel.it)
            k == sel.remove_count
            out == sel.page
        IN  /\ k = 0 => out = <<>>
            /\ k >= n => Range(out) = Range(sel.it)
            /\ Len(out) = Min(k, n)
            /\ IsSortedByAge(out)
            /\ \A i \in DOMAIN out : out[i] \in Range(sel.it)
            /\ \A i, j \in DOMAIN out : out[i] = out[j] => i = j
            /\ \A i \in DOMAIN out : out[i].lru = OracleAge(sel.it, i)

\* C3 witness: 0 < k < n, and an item met after the buffer was full made it
\* into the result ahead of an older entry of the buffer.
C3_LaterItemSelected ==
    /\ sel.done
    /\ sel.remove_count = 2
    /\ Len(sel.it) = 4
    /\ \E i \in DOMAIN sel.page : sel.page[i].k > 2 /\ i < Len(sel.page)

----------------------------------------------------------------------------
(* Properties of the lazy cells (SpecIsland)                               *)

\* C5: a caller reads s = current_cache_island_age(); a Ready cell touched
\* (get, get_mut) after that read is not cleared by
\* clear_if_untouched_since(s), and a Ready cell neither touched nor made
\* Ready after that read is cleared.
C5_SnapshotSweep ==
    [][\A c \in Cells :
        (/\ snap # NoSnap
         /\ ilast' = Visited("clear_if_untouched_since", c, snap)
         /\ cells[c].state = "Ready") =>
            /\ c \in since => cells'[c] = cells[c]
            /\ c \notin (since \cup made) => cells'[c].state = "Empty"]_vars

----------------------------------------------------------------------------
(* Properties of get_or_try_init_async (SpecInit)                          *)

\* the callers whose call on cell c has returned
Returned(c) == { t \in Tasks : task[t].pc = "done" /\ task[t].cell = c }

\* C6: while no initializer has failed, at most one initializer is run on an
\* Empty cell however many callers race; the cell is then Ready, every caller
\* returns the stored value, which is the value of the one initializer that
\* ran; and a caller that finds the cell Ready returns the stored value
\* without running (or waiting for) anything.
C6_SingleFlightSuccess ==
    /\ [](\A c \in Cells :
            fails[c] = 0 =>
                /\ runs[c] <= 1
                /\ cells[c].state = "Ready" => runs[c] = 1
                /\ \A t \in Returned(c) :
                    /\ cells[c].state = "Ready"
                    /\ task[t].ret = RetOk(cells[c].value)
                    /\ task[t].ran => cells[c].value = t)
    /\ [][\A t \in Tasks :
            (/\ task[t].pc = "idle"
             /\ task'[t].pc # "idle"
             /\ cells[task'[t].cell].state = "Ready") =>
                /\ task'[t].pc = "done"
                /\ task'[t].ret = RetOk(cells[task'[t].cell].value)
                /\ ~task'[t].ran
                /\ runs' = runs
                /\ cells' = cells]_vars

\* C6 witness: two callers raced on the Empty cell, both waited for the lock,
\* one ran its initializer, and both returned the value it stored.
C6_BothReturnedOneRan ==
    /\ fails[TheCell] = 0
    /\ runs[TheCell] = 1
    /\ Returned(TheCell) = {1, 2}
    /\ task[1].waited /\ task[2].waited
    /\ task[1].ran /\ ~task[2].ran
    /\ task[1].ret = RetOk(1) /\ task[2].ret = RetOk(1)

C8_ErrorsAreNotCached ==
    [][\A t \in Tasks :
        LET c == task[t].cell IN
        /\ (task[t].pc = "init" /\ task'[t].ret.kind = "Err") =>
                cells[c] = EmptyCell /\ cells'[c] = EmptyCell
        /\ (task[t].pc = "queued" /\ task'[t].pc # "queued" /\ cells[c].state = "Empty") =>
                task'[t].pc = "init" /\ task'[t].ran
        /\ (task[t].pc = "init" /\ task'[t].ret.kind = "Ok") =>
                /\ cells'[c].state = "Ready"
                /\ cells'[c].value = t
                /\ task'[t].ret = RetOk(t)]_vars

\* C8 witness: after a failed attempt on the cell, a later initializer
\* succeeded and the cell is Ready with its value.
C8_RetrySucceeded ==
    /\ fails[TheCell] >= 1
    /\ cells[TheCell].state = "Ready"
    /\ \E t \in Returned(TheCell) :
        task[t].ran /\ task[t].ret = RetOk(t) /\ cells[TheCell].value = t

----------------------------------------------------------------------------
(* Properties of the interning set (SpecSet)                               *)

\* C9: interning identity.  In every state the set holds at most one handle
\* per value; and a get_or_init(v) that follows an earlier get_or_init(v),
\* with no removal of v from the set in between, returns a handle to the
\* allocation the earlier call returned and allocates nothing.
C9_InterningIdentity ==
    /\ [](\A h1 \in groups, h2 \in groups : h1.val = h2.val => h1 = h2)
    /\ [][ (dlast'.op = "set.get_or_init" /\ interned[dlast'.val] # 0)
              => /\ dlast'.ret.ptr = interned[dlast'.val]
                 /\ dlast'.ret.val = dlast'.val
                 /\ ~dlast'.allocated
                 /\ nextPtr' = nextPtr ]_vars

\* a second get_or_init of a value returned the allocation of the first
\* while another value is interned in an allocation of its own
C9_SecondCallSameAllocation ==
    /\ dlast.op = "set.get_or_init"
    /\ ~dlast.allocated
    /\ dlast.ret \in groups
    /\ interned[dlast.val] = dlast.ret.ptr
    /\ \E h \in groups : h.val # dlast.val /\ h.ptr # dlast.ret.ptr

----------------------------------------------------------------------------
(* Properties of the dedup cache (SpecDedup)                               *)

\* the delegating operations: each ends with groups.remove_unreferenced()
Sweeping ==
    {"dedup.remove_lru", "dedup.remove_untouched", "dedup.remove_untouched_if",
     "dedup.retain", "dedup.set_capacity"}

\* C10: dedup lifecycle.  Cache keys whose values are equal hold the same
\* interned allocation; a call that removes cache entries leaves in the
\* interning set every handle another cache entry still references; and a
\* delegating operation leaves in the set no handle that has neither a cache
\* entry nor an external holder.
C10_DedupLifecycle ==
    /\ [](\A k1 \in DOMAIN dcache.map, k2 \in DOMAIN dcache.map :
            dcache.map[k1].val.val = dcache.map[k2].val.val
                => /\ dcache.map[k1].val = dcache.map[k2].val
                   /\ dcache.map[k1].val \in groups)
    /\ [][ /\ \A h \in groups : h \in Referenced(dcache'.map) => h \in groups'
           /\ dlast'.op \in Sweeping
                => \A h \in groups :
                     (h \notin Referenced(dcache'.map) /\ held[h.ptr] = 0) => h \notin groups'
         ]_vars

\* an allocation two keys shared stayed in the set when the entry of one key
\* was removed, and left the set with the sweep that followed the removal of
\* the other entry
C10_SharedThenSwept ==
    /\ dlast.op \in Sweeping
    /\ \E h \in dlast.gone :
        /\ h.ptr \in survived
        /\ h \notin Referenced(dcache.map)
        /\ h \notin groups

C12_SweepKeepsTheHeld ==
    [][ /\ dlast'.op \in Sweeping
             => groups' = { h \in groups : h \in Referenced(dcache'.map) \/ held'[h.ptr] > 0 }
        /\ \A h \in groups \ groups' : dlast'.op \in Sweeping /\ held[h.ptr] = 0
      ]_vars

\* a delegating operation removed the cache entry of a handle that a caller
\* holds: the handle is still in the set, with no cache entry left
C12_HeldOutlivesItsEntry ==
    /\ dlast.op \in Sweeping
    /\ \E h \in dlast.gone :
        /\ h \in groups
        /\ h \notin Referenced(dcache.map)
        /\ held[h.ptr] > 0

----------------------------------------------------------------------------
(* Properties of set_capacity on the bounded cache (SpecCap)               *)

\* C13: a set_capacity(low..=high) that evicts keeps only the `low` most
\* recently used entries: the cache then holds exactly min(len before, low)
\* entries, each with a stamp above the stamp of every evicted entry, and
\* their records are unchanged.
C13_SetCapacityKeepsLow ==
    [][ (last'.op = "set_capacity" /\ DOMAIN cache'.map # DOMAIN cache.map)
          => /\ len(cache') = Min(len(cache), cache'.capacity.start)
             /\ DOMAIN cache'.map \subseteq DOMAIN cache.map
             /\ \A k \in DOMAIN cache'.map :
                  /\ cache'.map[k] = cache.map[k]
                  /\ \A j \in (DOMAIN cache.map) \ (DOMAIN cache'.map) :
                       cache.map[k].lru > cache.map[j].lru
      ]_vars

\* C14: set_capacity removes only what does not conform to the new
\* capacity: called on a cache that holds at most `high` entries it removes
\* no entry and leaves the map, the stamps, the clock and the generation
\* mark as they were.
C14_SetCapacityWithinHighIsNoOp ==
    [][ (last'.op = "set_capacity" /\ len(cache) <= cache'.capacity.end)
          => /\ cache'.map = cache.map
             /\ cache'.lru = cache.lru
             /\ cache'.remove_touched = cache.remove_touched
      ]_vars

----------------------------------------------------------------------------
(* Properties of the lazy cell's methods (SpecIsland)                      *)

\* C15: clear_if_untouched_since(t) makes the cell Empty if and only if the
\* cell is Ready with a recorded age <= t; otherwise the cell, its value and
\* its age are unchanged; in both cases the process-wide age counter and the
\* other cells are unchanged.
C15_ConditionalClear ==
    [][\A c \in Cells :
        ilast'.op = "clear_if_untouched_since" /\ ilast'.cell = c
          => /\ IF cells[c].state = "Ready" /\ cells[c].age <= ilast'.arg
                THEN cells'[c] = EmptyCell
                ELSE cells'[c] = cells[c]
             /\ \A d \in Cells \ {c} : cells'[d] = cells[d]
             /\ CACHE_ISLAND_AGE' = CACHE_ISLAND_AGE
             /\ current_cache_island_age' = current_cache_island_age ]_vars

\* clear_if_untouched_since emptied a Ready cell while another cell, touched
\* later than the threshold, is Ready
C15_ClearedOneKeptOther ==
    /\ ilast.op = "clear_if_untouched_since"
    /\ ilast.was = "Ready"
    /\ cells[ilast.cell] = EmptyCell
    /\ \E d \in Cells : cells[d].state = "Ready" /\ cells[d].age > ilast.arg

\* the callers whose call of get_or_try_init_async returns in this step with
\* the value of a cell that was Ready before the step
ReadOfReady(c) ==
    { t \in Tasks : /\ task[t].pc \in {"idle", "queued"}
                    /\ task'[t].pc = "done"
                    /\ task'[t].cell = c
                    /\ task'[t].ret.kind = "Ok"
                    /\ cells[c].state = "Ready" }

\* C16: every access to a Ready cell through get, get_mut or
\* get_or_try_init_async bumps the cell's age: the call stores as the cell's
\* age the tick it draws from the process-wide counter, which is strictly
\* greater than the age the cell had.
C16_EveryAccessBumpsAge ==
    [][\A c \in Cells :
        (/\ cells[c].state = "Ready"
         /\ \/ ilast' # ilast /\ ilast'.op \in {"get", "get_mut"} /\ ilast'.cell = c
            \/ ReadOfReady(c) # {})
          => /\ cells'[c].state = "Ready"
             /\ cells'[c].age = CACHE_ISLAND_AGE
             /\ CACHE_ISLAND_AGE' = CACHE_ISLAND_AGE + 1
             /\ cells'[c].age > cells[c].age ]_vars

----------------------------------------------------------------------------
(* Properties of insert on a key already present (SpecVal)                 *)

\* C17: insert(key, value) on a key already present replaces the value,
\* returns the previous value, stamps the record with a fresh stamp above
\* every other stamp and runs no capacity check: the key set is unchanged
\* and no other record is removed or restamped, even when len >= high.
C17_InsertReplaces ==
    [][ (last'.op = "insert" /\ last'.key \in DOMAIN cache.map)
          => LET k == last'.key IN
             /\ DOMAIN cache'.map = DOMAIN cache.map
             /\ cache'.map[k].val = last'.val
             /\ last'.ret = { cache.map[k].val }
             /\ cache'.map[k].lru = cache.lru
             /\ cache'.lru = cache.lru + 1
             /\ \A j \in (DOMAIN cache'.map) \ {k} :
                  /\ cache'.map[j] = cache.map[j]
                  /\ cache'.map[k].lru > cache'.map[j].lru
             /\ cache'.capacity = cache.capacity
             /\ cache'.remove_touched = cache.remove_touched
      ]_vars

\* a full cache of two entries had the value of one of them replaced by a
\* different value, which made that entry the most recently used
C17_ReplacedInFullCache ==
    /\ last.op = "insert"
    /\ last.ret # {}
    /\ last.val \notin last.ret
    /\ len(cache) >= 2
    /\ len(cache) >= cache.capacity.end
    /\ \A j \in (DOMAIN cache.map) \ {last.key} : cache.map[last.key].lru > cache.map[j].lru

----------------------------------------------------------------------------
(* Properties of the refcount-driven removals of the interning set         *)
(* (SpecSet)                                                               *)

\* C18: remove_if_unused(v) removes the handle equal to v if and only if
\* the set is its only holder, and removes no other handle;
\* remove_unreferenced removes exactly the handles whose only holder is the
\* set; neither removes a handle that has a holder outside the set, and
\* neither changes what the callers hold.
C18_OnlyTheSoleHolderRemoves ==
    [][ /\ dlast'.op = "set.remove_if_unused"
             => groups' = groups \ { h \in groups : h.val = dlast'.val /\ held[h.ptr] = 0 }
        /\ dlast'.op = "set.remove_unreferenced"
             => groups' = { h \in groups : held[h.ptr] > 0 }
        /\ dlast'.op \in {"set.remove_if_unused", "set.remove_unreferenced"}
             => /\ held' = held
                /\ \A h \in groups : held[h.ptr] > 0 => h \in groups'
      ]_vars

\* remove_if_unused removed a handle no caller held, and left in the set a
\* handle that a caller holds
C18_RemovedUnusedKeptHeld ==
    /\ dlast.op = "set.remove_if_unused"
    /\ dlast.gone # {}
    /\ \A h \in dlast.gone : h.val = dlast.val /\ held[h.ptr] = 0
    /\ \E h \in groups : held[h.ptr] > 0

----------------------------------------------------------------------------
(* Properties of concurrent touches (SpecTouch)                            *)

\* the ticks the touches of key k have drawn
DrawnFor(k) == { tlog.drawn[i].tick : i \in { j \in DOMAIN tlog.drawn : tlog.drawn[j].key = k } }

\* every touch that drew a tick has stored it
Quiescent == \A t \in Threads : readers[t].pc = "idle"

\* C19: concurrent touches under shared access are safe.  Under every
\* interleaving of the fetch-adds and the stores, the key set and the
\* values are unchanged, the ticks drawn are pairwise distinct, the clock
\* has advanced by the number of touches, an untouched record keeps its
\* stamp, and once the touches are over each touched record holds a tick
\* drawn by one of the touches of that record.
C19_ConcurrentTouchesAreSafe ==
    /\ DOMAIN cache.map = DOMAIN tlog.map
    /\ \A k \in DOMAIN cache.map : cache.map[k].val = tlog.map[k].val
    /\ \A i \in DOMAIN tlog.drawn, j \in DOMAIN tlog.drawn :
          i # j => tlog.drawn[i].tick # tlog.drawn[j].tick
    /\ cache.lru = tlog.lru + Len(tlog.drawn)
    /\ \A k \in DOMAIN cache.map :
          /\ cache.map[k].lru \in {tlog.map[k].lru} \cup DrawnFor(k)
          /\ DrawnFor(k) = {} => cache.map[k].lru = tlog.map[k].lru
          /\ (Quiescent /\ DrawnFor(k) # {}) => cache.map[k].lru \in DrawnFor(k)

\* the touches are over and a record touched twice holds the earlier of its
\* two ticks, below the stamp of a record that was touched before it
C19_LostUpdate ==
    /\ Quiescent
    /\ \E k \in DOMAIN cache.map :
        /\ \E tick \in DrawnFor(k) : cache.map[k].lru < tick
        /\ \E j \in DOMAIN cache.map : j # k /\ DrawnFor(j) # {} /\ cache.map[j].lru > cache.map[k].lru

----------------------------------------------------------------------------
(* Properties of reading without touching (SpecPeek)                       *)

\* C20: peek versus use.  Reading an item through value(), contains_key and
\* len change nothing in the cache; retain leaves the stamps of the records
\* it keeps, the clock and the generation mark unchanged; so an entry that
\* was only read this way since the previous sweep is removed by
\* remove_untouched, and remove_lru(1) evicts the entry with the lowest
\* stamp, read or not.  touch_value() gives exactly the record of its
\* item the stamp it draws from the clock and changes no other record.
C20_PeekDoesNotTouch ==
    [][ /\ last'.op \in {"value", "contains_key", "len"}
             => cache' = cache /\ touched' = touched
        /\ last'.op = "retain"
             => /\ cache'.lru = cache.lru
                /\ cache'.remove_touched = cache.remove_touched
                /\ \A k \in DOMAIN cache'.map : cache'.map[k] = cache.map[k]
        /\ last'.op = "remove_untouched"
             => DOMAIN cache'.map = (DOMAIN cache.map) \cap touched
        /\ last'.op = "remove_lru"
             => /\ len(cache') = Max(len(cache) - 1, 0)
                /\ \A k \in DOMAIN cache'.map :
                     \A j \in (DOMAIN cache.map) \ (DOMAIN cache'.map) :
                        cache.map[j].lru <= cache.map[k].lru
        /\ last'.op = "touch_value"
             => LET k == last'.key IN
                /\ DOMAIN cache'.map = DOMAIN cache.map
                /\ cache'.map[k] = [lru |-> cache.lru, val |-> cache.map[k].val]
                /\ cache'.lru = cache.lru + 1
                /\ cache'.remove_touched = cache.remove_touched
                /\ \A j \in (DOMAIN cache.map) \ {k} : cache'.map[j] = cache.map[j]
      ]_vars

\* an entry was read through value() after a sweep and after another entry
\* was touched: it is still the one remove_untouched and remove_lru(1)
\* would remove
C20_PeekedStaysOldest ==
    /\ last.op = "value"
    /\ last.key \notin touched
    /\ touched # {}
    /\ cache.remove_touched > 0
    /\ cache.map[last.key].lru < cache.remove_touched
    /\ \A j \in (DOMAIN cache.map) \ {last.key} : cache.map[j].lru > cache.map[last.key].lru

----------------------------------------------------------------------------
(* Properties of CacheDedup::get_or_init and invariants (SpecDedup)        *)

\* C21: get_or_init(key, value) never fails and returns the handle the cache
\* maps key to after the call, whatever the capacity range.  When key was
\* present the handle it had is returned and kept, even if value differs
\* from it: value is not interned (no allocation, the interning set is
\* unchanged) and the set of cache keys is unchanged.  When key was absent
\* the handle returned holds value.
C21_GetOrInitReturnsTheMapped ==
    [][ dlast'.op = "dedup.get_or_init"
          => LET k == dlast'.key IN
             /\ dlast'.ret # Panicked
             /\ k \in DOMAIN dcache'.map
             /\ dlast'.ret = dcache'.map[k].val
             /\ k \in DOMAIN dcache.map
                  => /\ dlast'.ret = dcache.map[k].val
                     /\ DOMAIN dcache'.map = DOMAIN dcache.map
                     /\ \A j \in DOMAIN dcache.map : dcache'.map[j].val = dcache.map[j].val
                     /\ groups' = groups
                     /\ nextPtr' = nextPtr
                     /\ ~dlast'.allocated
             /\ k \notin DOMAIN dcache.map => dlast'.ret.val = dlast'.val
      ]_vars

\* get_or_init was called on a key already present with a value that
\* differs from the one the key holds: the handle the key held came back
\* and the value passed is not in the interning set
C21_PresentKeyOtherValue ==
    /\ dlast.op = "dedup.get_or_init"
    /\ ~dlast.allocated
    /\ dlast.ret.val # dlast.val
    /\ dlast.gone = {}
    /\ dcache.map[dlast.key].val = dlast.ret
    /\ set_get(groups, dlast.val) = {}

----------------------------------------------------------------------------
(* The stamps and the clock of the bounded cache under every method that   *)
(* changes it (SpecAll)                                                    *)

\* the capacity ranges with a finite high
BoundedCapacities == Capacities \ { Capacity(UsizeMax, UsizeMax) }

\* Cache::with_capacity(low..=high) with a finite high
AllInit ==
    /\ cache \in { with_capacity(cap) : cap \in BoundedCapacities }
    /\ touched = {}
    /\ last = [op |-> "new", removed |-> 0]
    /\ SelIdle /\ IslandIdle /\ InitIdle /\ DedupIdle /\ TouchIdle

\* Cache::set_capacity(low..=high) with a finite high
SetCapacityBounded ==
    /\ \E capacity \in BoundedCapacities :
        cache' \in set_capacity(cache, capacity)
    /\ touched' = Present(touched, cache'.map)
    /\ last' = Called("set_capacity", cache, cache')
    /\ UNCHANGED notCache

\* every method of the cache that writes the clock, a stamp, the mark, the
\* map or the capacity; get_mut stamps as get does (Get)
AllNext ==
    \/ Insert
    \/ Get
    \/ IterTouchValue
    \/ Remove
    \/ RemoveLru
    \/ RemoveUntouched
    \/ RemoveUntouchedIf
    \/ Retain
    \/ SetCapacityBounded

SpecAll == AllInit /\ [][AllNext]_vars

\* C22: in every state reachable by insert, get (get_mut), touch_value,
\* remove, remove_lru, remove_untouched, remove_untouched_if, retain and
\* set_capacity, below the overflow of the clock: every record's stamp is
\* strictly less than the clock, no two records hold the same stamp and the
\* mark of remove_untouched never exceeds the clock; so remove_lru(n) has
\* one possible outcome for every n.  Every step that advances the clock
\* leaves the record it stamped with the previous value of the clock, which
\* is larger than the stamp of every other record; every other step leaves
\* the stamps of the records it keeps as they were, so the record touched
\* last has the largest stamp for as long as it stays.
C22_StampsAreDistinctAndBelowTheClock ==
    /\ [](/\ \A k \in DOMAIN cache.map : cache.map[k].lru < cache.lru
          /\ \A j, k \in DOMAIN cache.map :
                j # k => cache.map[j].lru # cache.map[k].lru
          /\ cache.remove_touched <= cache.lru
          /\ \A n \in 0..(MaxKey + 1) : Cardinality(remove_lru(cache, n)) = 1)
    /\ [][ (cache'.lru # cache.lru
               => /\ cache'.lru = cache.lru + 1
                  /\ \E k \in DOMAIN cache'.map :
                       /\ cache'.map[k].lru = cache.lru
                       /\ \A j \in (DOMAIN cache'.map) \ {k} :
                             /\ cache'.map[j].lru < cache'.map[k].lru
                             /\ j \in DOMAIN cache.map
                             /\ cache'.map[j].lru = cache.map[j].lru)
            /\ (cache'.lru = cache.lru
                  => \A k \in DOMAIN cache'.map :
                       /\ k \in DOMAIN cache.map
                       /\ cache'.map[k].lru = cache.map[k].lru)
          ]_vars

\* get stamped a record again after a remove_untouched moved the mark: the
\* record holds the largest stamp, one below the clock, next to a record
\* whose stamp is below the mark
C22_TouchedAgainAfterTheMarkMoved ==
    /\ last.op = "get"
    /\ cache.remove_touched > 0
    /\ len(cache) >= 2
    /\ \E k, j \in DOMAIN cache.map :
        /\ cache.map[k].lru = cache.lru - 1
        /\ cache.map[j].lru < cache.remove_touched

----------------------------------------------------------------------------
(* The invariant that ties the cache of a CacheDedup to its interning set  *)
(* (SpecDedup)                                                             *)

\* C23: in every state reachable by get_or_init, remove_lru,
\* remove_untouched, remove_untouched_if, retain and set_capacity, with
\* predicates that do not reassign the handle: every handle stored as a
\* cache value is in the interning set and is the one handle the set holds
\* for its value, so two cache keys whose values are equal hold the same
\* allocation; and no step takes out of the set a handle that a cache entry
\* references, before the step and after it.
C23_CachedHandlesAreCanonical ==
    /\ [](/\ Referenced(dcache.map) \subseteq groups
          /\ \A h \in Referenced(dcache.map) : set_get(groups, h.val) = {h}
          /\ \A j, k \in DOMAIN dcache.map :
                dcache.map[j].val.val = dcache.map[k].val.val
                    => dcache.map[j].val.ptr = dcache.map[k].val.ptr)
    /\ [][ \A h \in groups \ groups' :
              /\ h \notin Referenced(dcache'.map)
              /\ \A k \in (DOMAIN dcache.map) \cap (DOMAIN dcache'.map) :
                    dcache.map[k].val # h
          ]_vars

\* two keys held the one allocation of their value and a delegating
\* operation removed the entry of one of them: the other entry still holds
\* the allocation, which no caller holds, and the set still has it as the
\* handle of its value
C23_SharedHandleOutlivesOneEntry ==
    /\ dlast.op \in Sweeping
    /\ \E h \in dlast.gone :
        /\ h \in Referenced(dcache.map)
        /\ held[h.ptr] = 0
        /\ set_get(groups, h.val) = {h}

====
